---- MODULE Spec2Model ----
(***************************************************************************)
(* makefile-mcp: the working-directory override slot, the command          *)
(* executor, the parser, the normalizer, the filter, the registration of   *)
(* tools, tool calls and the command line, as state machines.              *)
(*                                                                         *)
(*   package "makefile_mcp"    : src/src/makefile_mcp/server.py            *)
(*                               (set_working_directory, run_make,         *)
(*                               create_server) and __init__.py (main)     *)
(*   package "mcp_server_make" : src/src/mcp_server_make/server_v2.py      *)
(*                               (run_make_target, serve) and              *)
(*                               src/src/mcp_server_make/parser.py         *)
(*                               (parse_makefile, normalize_tool_name)     *)
(*                                                                         *)
(* One server process runs one of the two packages.  An execution is one   *)
(* call of run_make / run_make_target; its child process (make) and the    *)
(* processes make forks are the environment.                               *)
(***************************************************************************)
EXTENDS Integers, Sequences, FiniteSets, TLC

----------------------------------------------------------------------------
(* Bounds *)

\* Number of executions that may be in flight at once.
MaxInv == 2

Inv == 1..MaxInv

\* Number of lines of a build file, of targets of a target list, and of
\* characters of a name and of a prefix handed to the normalizer.
MaxLines == 3
MaxTargets == 3
MaxNameLen == 3
MaxPrefixLen == 2

----------------------------------------------------------------------------
(* Values *)

\* Optional[str]: None is the empty tuple, a string s is <<s>>.
None == <<>>
Some(s) == <<s>>

\* Python truthiness of an Optional[str]: None and "" are falsy.
Truthy(o) == IF o = None THEN FALSE ELSE o[1] # ""

\* Directories a caller may name.  "" is the empty string, "/a" exists,
\* "/b" does not exist on disk.
Dirs == {"", "/a", "/b"}
ExistingDirs == {"/a"}
OptDirs == {None} \cup {Some(d) : d \in Dirs}

\* The directory the server process is started in.
StartDir == "/srv"

\* Timeouts a server may be configured with (seconds).
Timeouts == {1, 300}

\* server_v2.py hard-codes its timeout: 300 seconds, reported as 5 minutes.
V2TimeoutSeconds == 300
V2TimeoutMinutes == 5

\* Byte strings a child may write to a pipe: a sequence of byte values.
\* 111 is 'o', 101 is 'e'; 255 is not valid UTF-8.
StdoutBytes == {<<>>, <<111>>, <<255>>}
StderrBytes == {<<>>, <<101>>}
ExitCodes == {0, 1}

\* A text is a sequence of pieces (strings); concatenation is \o and the
\* empty text is <<>>.
Chr(b) == CASE b = 111 -> "o" [] b = 101 -> "e" [] OTHER -> "?"

\* bytes.decode(): defined only on valid UTF-8 (here: every byte < 128).
Utf8Valid(b) == \A k \in DOMAIN b : b[k] < 128
Decode(b) == [k \in DOMAIN b |-> Chr(b[k])]

\* str(n) for an integer: its decimal digits, most significant first.
DigitChr(d) == CASE d = 0 -> "0" [] d = 1 -> "1" [] d = 2 -> "2" [] d = 3 -> "3"
                 [] d = 4 -> "4" [] d = 5 -> "5" [] d = 6 -> "6" [] d = 7 -> "7"
                 [] d = 8 -> "8" [] OTHER -> "9"
RECURSIVE NatDigits(_)
NatDigits(n) == IF n < 10 THEN <<DigitChr(n)>>
                ELSE NatDigits(n \div 10) \o <<DigitChr(n % 10)>>
Digits(n) == IF n < 0 THEN <<"-">> \o NatDigits(0 - n) ELSE NatDigits(n)

\* t occurs in text as a contiguous run of pieces.
Contains(text, t) ==
    \E k \in 0..(Len(text) - Len(t)) :
        \A j \in 1..Len(t) : text[k + j] = t[j]

\* str(e) of the exception a failed launch or a failed wait raises.
ErrText == <<"[Errno 2] No such file or directory">>

----------------------------------------------------------------------------
(* Build files and targets: parser.py *)

\* The text of a build file, a name and a description are sequences of
\* characters; the seven characters of ".PHONY" are kept as one element.
Letters == {"a", "b", "c", "d", "x", "y", "z", "m", "k", "e"}
DigitChars == {"0", "1"}
IsSpace(c) == c \in {" ", "\t", "\n"}
\* [a-zA-Z_] and [a-zA-Z0-9_-]
IsNameStart(c) == c \in Letters \cup {"_"}
IsNameChar(c) == c \in Letters \cup DigitChars \cup {"_", "-"}

\* parser.py:9-15  MakeTarget
MakeTarget(name, description, is_phony) ==
    [name |-> name, description |-> description, is_phony |-> is_phony]

\* text[from..to), and the characters from a position on.
Slice(text, from, to) == SubSeq(text, from, to - 1)

\* The first position >= p whose character satisfies no IsSpace (Len+1 if
\* there is none): where a greedy \s* that starts at p ends.
RECURSIVE SkipSpace(_, _)
SkipSpace(text, p) ==
    IF p > Len(text) THEN p
    ELSE IF IsSpace(text[p]) THEN SkipSpace(text, p + 1) ELSE p

\* The first position >= p that holds character c (Len+1 if there is none).
RECURSIVE Find(_, _, _)
Find(text, p, c) ==
    IF p > Len(text) THEN p
    ELSE IF text[p] = c THEN p ELSE Find(text, p + 1, c)

\* Where a greedy [a-zA-Z0-9_-]* that starts at p ends.
RECURSIVE SkipName(_, _)
SkipName(text, p) ==
    IF p > Len(text) THEN p
    ELSE IF IsNameChar(text[p]) THEN SkipName(text, p + 1) ELSE p

\* The first position >= p that holds white space (Len+1 if there is none).
RECURSIVE SkipWord(_, _)
SkipWord(text, p) ==
    IF p > Len(text) THEN p
    ELSE IF IsSpace(text[p]) THEN p ELSE SkipWord(text, p + 1)

\* str.strip() and str.split()
RECURSIVE LStrip(_)
LStrip(t) == IF t # <<>> /\ IsSpace(Head(t)) THEN LStrip(Tail(t)) ELSE t
RECURSIVE RStrip(_)
RStrip(t) ==
    IF t # <<>> /\ IsSpace(t[Len(t)]) THEN RStrip(SubSeq(t, 1, Len(t) - 1))
    ELSE t
Strip(t) == RStrip(LStrip(t))
RECURSIVE Split(_)
Split(t) ==
    LET u == LStrip(t)
        e == IF \E k \in DOMAIN u : IsSpace(u[k])
             THEN CHOOSE k \in DOMAIN u :
                      IsSpace(u[k]) /\ \A j \in 1..(k - 1) : ~IsSpace(u[j])
             ELSE Len(u) + 1
    IN  IF u = <<>> THEN {}
        ELSE {Slice(u, 1, e)} \cup Split(SubSeq(u, e, Len(u)))

\* str.split() as the list it is: the words in their order.
RECURSIVE args_split(_)
args_split(t) ==
    LET u == LStrip(t)
        e == SkipWord(u, 1)
    IN  IF u = <<>> THEN <<>>
        ELSE <<Slice(u, 1, e)>> \o args_split(SubSeq(u, e, Len(u)))

\* "\s*(.+)" matched at q, as the regex engine does it: \s* takes all the
\* white space it can and gives back until "." (any character but a
\* newline) has one character to match.  The result is the position where
\* group (.+) starts, 0 if there is no match.
GroupStart(text, q) ==
    LET w == SkipSpace(text, q)
        back == {v \in q..(w - 1) : text[v] # "\n"}
    IN  IF w <= Len(text) THEN w
        ELSE IF back = {} THEN 0
        ELSE CHOOSE v \in back : \A u \in back : u <= v

\* parser.py:44  target_pattern matched at position s (a line start):
\* ^([a-zA-Z_][a-zA-Z0-9_-]*)\s*:(?:[^#]*)##\s*(.+)$ .  \s and [^#] also
\* match a newline.  The match is [name_end, group_start, stop), 
\* <<>> if there is none.
TargetMatch(text, s) ==
    IF s > Len(text) THEN <<>>
    ELSE IF ~IsNameStart(text[s]) THEN <<>>
    ELSE LET ne == SkipName(text, s + 1)
             colon == SkipSpace(text, ne)
             hash == Find(text, colon + 1, "#")
             g == GroupStart(text, hash + 2)
         IN  IF colon > Len(text) THEN <<>>
             ELSE IF text[colon] # ":" THEN <<>>
             ELSE IF hash + 1 > Len(text) THEN <<>>
             ELSE IF text[hash + 1] # "#" THEN <<>>
             ELSE IF g = 0 THEN <<>>
             ELSE <<ne, g, Find(text, g, "\n")>>

\* parser.py:37  phony_pattern matched at position s:
\* \.PHONY\s*:\s*(.+) .  The match is [group_start, stop), <<>> if none.
PhonyMatch(text, s) ==
    IF s > Len(text) THEN <<>>
    ELSE IF text[s] # ".PHONY" THEN <<>>
    ELSE LET colon == SkipSpace(text, s + 1)
             g == GroupStart(text, colon + 1)
         IN  IF colon > Len(text) THEN <<>>
             ELSE IF text[colon] # ":" THEN <<>>
             ELSE IF g = 0 THEN <<>>
             ELSE <<g, Find(text, g, "\n")>>

\* parser.py:38-40: re.finditer from position s on (matches do not
\* overlap); the names of every match are added to the set.
RECURSIVE phony_targets(_, _)
phony_targets(text, s) ==
    IF s > Len(text) THEN {}
    ELSE LET m == PhonyMatch(text, s)
         IN  IF m = <<>> THEN phony_targets(text, s + 1)
             ELSE Split(Slice(text, m[1], m[2]))
                      \cup phony_targets(text, m[2])

\* parser.py:46-54: re.finditer with re.MULTILINE from position s on: "^"
\* matches at the start of the text and after every newline.
RECURSIVE targets_from(_, _, _)
targets_from(text, s, phony) ==
    IF s > Len(text) THEN <<>>
    ELSE LET m == IF s = 1 THEN TargetMatch(text, s)
                  ELSE IF text[s - 1] = "\n" THEN TargetMatch(text, s)
                  ELSE <<>>
         IN  IF m = <<>> THEN targets_from(text, s + 1, phony)
             ELSE <<MakeTarget(Slice(text, s, m[1]),
                               Strip(Slice(text, m[2], m[3])),
                               Slice(text, s, m[1]) \in phony)>>
                      \o targets_from(text, m[3], phony)

\* parser.py:18-56  parse_makefile, of the text that was read
parse_makefile(text) == targets_from(text, 1, phony_targets(text, 1))

\* Faulty variant: re.sub runs over the formatted name, prefix included.
normalize_tool_name_whole(target_name, pfx) ==
    [k \in 1..(Len(pfx) + Len(target_name)) |->
        IF (pfx \o target_name)[k] \in {"-", ":"} THEN "_"
        ELSE (pfx \o target_name)[k]]

\* parser.py:59-71  normalize_tool_name: re.sub(r'[-:]', '_', target_name)
\* with the prefix put in front by the f-string.
normalize_tool_name(target_name, pfx) ==
    pfx \o [k \in DOMAIN target_name |->
               IF target_name[k] \in {"-", ":"} THEN "_" ELSE target_name[k]]

----------------------------------------------------------------------------
(* The filter: server.py:148-158, server_v2.py:131-142 *)

\* An include or exclude argument is None or <<S>>, S the set of the
\* patterns of the list (matches_patterns asks only whether any matches).
\* Python truthiness of the argument: None and the empty list are falsy.
Given(patterns) == IF patterns = None THEN FALSE ELSE patterns[1] # {}

\* fnmatch.translate: the position of the "]" that closes the class opened
\* at pat[1] = "[" (a leading "!" and a "]" right after it are skipped),
\* 0 if the class is not closed.
ClassEnd(pat) ==
    LET j1 == IF Len(pat) >= 2 /\ pat[2] = "!" THEN 3 ELSE 2
        j2 == IF Len(pat) >= j1 /\ pat[j1] = "]" THEN j1 + 1 ELSE j1
        j == Find(pat, j2, "]")
    IN  IF j > Len(pat) THEN 0 ELSE j

\* fnmatch.fnmatch(name, pat) on POSIX (normcase is the identity): "*" is
\* any run of characters, "?" any one character, "[seq]" / "[!seq]" one
\* character in / not in seq (an unclosed "[" is itself), any other
\* character itself; the whole name must match.  Ranges inside a class are
\* not drawn by the patterns used here.
RECURSIVE fnmatch(_, _)
fnmatch(name, pat) ==
    IF pat = <<>> THEN name = <<>>
    ELSE IF pat[1] = "*"
    THEN IF fnmatch(name, Tail(pat)) THEN TRUE
         ELSE IF name = <<>> THEN FALSE
         ELSE fnmatch(Tail(name), pat)
    ELSE IF name = <<>> THEN FALSE
    ELSE IF pat[1] = "?" THEN fnmatch(Tail(name), Tail(pat))
    ELSE IF pat[1] = "[" /\ ClassEnd(pat) # 0
    THEN LET j == ClassEnd(pat)
             negated == pat[2] = "!"
             members == {pat[k] : k \in (IF negated THEN 3 ELSE 2)..(j - 1)}
         IN  IF (name[1] \in members) = negated THEN FALSE
             ELSE fnmatch(Tail(name), SubSeq(pat, j + 1, Len(pat)))
    ELSE IF name[1] # pat[1] THEN FALSE
    ELSE fnmatch(Tail(name), Tail(pat))

\* server.py:149-150
matches_patterns(name, patterns) == \E p \in patterns : fnmatch(name, p)

\* Faulty variant: targets are removed from the list that is being iterated
\* ("for t in targets: if ...: targets.remove(t)"), so the target after a
\* removed one is never looked at.
RECURSIVE filter_targets_in_place(_, _, _)
filter_targets_in_place(targets, inc, exc) ==
    IF targets = <<>> THEN <<>>
    ELSE LET t == Head(targets)
             dropped ==
                 IF Given(inc) /\ ~matches_patterns(t.name, inc[1]) THEN TRUE
                 ELSE Given(exc) /\ matches_patterns(t.name, exc[1])
         IN  IF ~dropped
             THEN <<t>> \o filter_targets_in_place(Tail(targets), inc, exc)
             ELSE IF Len(targets) = 1 THEN <<>>
             ELSE <<targets[2]>>
                      \o filter_targets_in_place(Tail(Tail(targets)), inc, exc)

\* Faulty variant: "filtered.insert(0, t)" instead of "filtered.append(t)".
RECURSIVE filter_targets_prepends(_, _, _)
filter_targets_prepends(targets, inc, exc) ==
    IF targets = <<>> THEN <<>>
    ELSE LET t == Head(targets)
             rest == filter_targets_prepends(Tail(targets), inc, exc)
         IN  IF Given(inc) /\ ~matches_patterns(t.name, inc[1]) THEN rest
             ELSE IF Given(exc) /\ matches_patterns(t.name, exc[1]) THEN rest
             ELSE rest \o <<t>>

\* server.py:152-158: the loop that builds "filtered".
RECURSIVE filter_targets(_, _, _)
filter_targets(targets, inc, exc) ==
    IF targets = <<>> THEN <<>>
    ELSE LET t == Head(targets)
             rest == filter_targets(Tail(targets), inc, exc)
         IN  IF Given(inc) /\ ~matches_patterns(t.name, inc[1]) THEN rest
             ELSE IF Given(exc) /\ matches_patterns(t.name, exc[1]) THEN rest
             ELSE <<t>> \o rest

\* dict[key] = value on a dict kept as the sequence of its items in
\* insertion order: a key that is present keeps its place and gets the new
\* value, a new key is appended.
DictSet(d, key, value) ==
    IF \E k \in DOMAIN d : d[k].key = key
    THEN [k \in DOMAIN d |->
             IF d[k].key = key THEN [key |-> key, value |-> value] ELSE d[k]]
    ELSE Append(d, [key |-> key, value |-> value])

\* server_v2.py:131-142: the loop that fills discovered_targets; include and
\* exclude are sets of names tested with "in".
RECURSIVE discover_targets(_, _, _, _, _)
discover_targets(d, targets, inc, exc, pfx) ==
    IF targets = <<>> THEN d
    ELSE LET t == Head(targets)
         IN  IF Given(inc) /\ t.name \notin inc[1]
             THEN discover_targets(d, Tail(targets), inc, exc, pfx)
             ELSE IF Given(exc) /\ t.name \in exc[1]
             THEN discover_targets(d, Tail(targets), inc, exc, pfx)
             ELSE discover_targets(
                      DictSet(d, normalize_tool_name(t.name, pfx), t),
                      Tail(targets), inc, exc, pfx)

\* d.setdefault(key, value): a key that is present keeps its value.
DictSetDefault(d, key, value) ==
    IF \E k \in DOMAIN d : d[k].key = key THEN d
    ELSE Append(d, [key |-> key, value |-> value])

\* server.py:191-220: the loop that registers one tool per filtered target,
\* under its normalized name, with the target's description and a closure
\* over the target.  fastmcp keeps its tools by name; for a name that is
\* registered already the installed version either replaces the tool
\* (replace) or keeps the first one.
RECURSIVE register_tools(_, _, _, _)
register_tools(d, targets, pfx, replace) ==
    IF targets = <<>> THEN d
    ELSE LET target == Head(targets)
             tool_name == normalize_tool_name(target.name, pfx)
             tool == [description |-> target.description, t |-> target]
         IN  register_tools(
                 IF replace THEN DictSet(d, tool_name, tool)
                 ELSE DictSetDefault(d, tool_name, tool),
                 Tail(targets), pfx, replace)

----------------------------------------------------------------------------
(* State *)

VARIABLES
    package,              \* which package this process runs
    phase,                \* "new" | "serving" | "failed"
    process_cwd,          \* the server process's own current directory
    working_dir,          \* working_dir given to create_server / serve
    timeout,              \* timeout given to create_server
    current_working_dir,  \* server.py:16  _current_working_dir
    written,              \* history: arguments of the completed setter calls
    api,                  \* history: the last setter/getter call (op), its
                          \* return (ret) and the last setter argument (arg)
    exec,                 \* exec[i]: execution i (locals, child, outcome)
    makefile_exists,      \* whether the build file is on disk
    makefile,             \* the text of the build file on disk
    include,              \* include given to create_server / serve
    exclude,              \* exclude given to create_server / serve
    prefix,               \* prefix given to create_server / serve
    auto_discover,        \* auto_discover given to serve
    all_targets,          \* server.py:146 all_targets, server_v2.py:134 targets
    filtered,             \* server.py:152  filtered
    discovered_targets,   \* server_v2.py:132  discovered_targets
    tools,                \* the tools server.tool has registered (server.py:218)
    startup_exc,          \* the exception that ended create_server / serve
    cli,                  \* how the process was started: by the console
                          \* script (entry "main") or by a program that
                          \* imports the package; the value of -C (flag) and
                          \* of MAKEFILE_MCP_CWD (env), None if not given
    tool_name_call        \* a call of normalize_tool_name: its arguments
                          \* and, once it has returned, its result

\* What construction sets up, and the call of the normalizer.
assembly == <<makefile_exists, makefile, include, exclude, prefix,
              auto_discover, all_targets, filtered, discovered_targets, tools,
              startup_exc, cli, tool_name_call>>

vars == <<package, phase, process_cwd, working_dir, timeout,
          current_working_dir, written, api, exec, assembly>>

shared == <<package, phase, process_cwd, working_dir, timeout,
            current_working_dir, written, api, assembly>>

\* A call of a tool by a client: the tool's name and the arguments
\* "target" (absent: None), "args" and "dry_run"; well_typed tells whether
\* the values given have the types the tool declares.
ToolCall(name, target, args, dry_run, well_typed) ==
    [name |-> name, target |-> target, args |-> args, dry_run |-> dry_run,
     well_typed |-> well_typed]
NoToolCall == ToolCall(<<>>, None, <<>>, FALSE, TRUE)

\* An execution that has not been called yet.
Fresh == [pc        |-> "idle",   \* idle, resolved, waiting, killing,
                                  \* cancel_sleep, returned, raised
          slot_read |-> None,     \* what line 86 loaded from the slot
          cwd       |-> None,     \* cwd= handed to create_subprocess_exec
          child     |-> "none",   \* none, running, exited
          desc      |-> "none",   \* a process forked by the child:
                                  \* none, piped (holds the pipes), detached
          sig       |-> "none",   \* signal sent to the child: none, TERM, KILL
          rc        |-> 0,        \* proc.returncode once exited
          out       |-> <<>>,     \* bytes the child wrote to stdout
          err       |-> <<>>,     \* bytes the child wrote to stderr
          fate      |-> "none",   \* what happened: launch_error, exit,
                                  \* timeout, wait_error, cancel
          attempts  |-> 0,        \* history: calls of create_subprocess_exec
          call      |-> NoToolCall,\* history: the tool call that started it
          target    |-> <<>>,     \* run_make's target
          args      |-> <<>>,     \* run_make's args / extra_args
          dry_run   |-> FALSE,    \* run_make's dry_run
          cmd       |-> <<>>,     \* the command handed to the child
          result    |-> <<>>,     \* the returned text
          exc       |-> "none"]   \* the exception raised to the caller

\* Sequences over S of length at most n.
SeqUpTo(S, n) == UNION {[1..k -> S] : k \in 0..n}

\* Lines a build file is made of: "a:##x", "b-c : ## y", "c:d", "a:## "
\* (nothing but a blank after "##"), ".PHONY: a", ".PHONY:" and a recipe
\* line.
MakefileLines ==
    { <<"a", ":", "#", "#", "x">>,
      <<"b", "-", "c", " ", ":", " ", "#", "#", " ", "y">>,
      <<"c", ":", "d">>,
      <<"a", ":", "#", "#", " ">>,
      <<".PHONY", ":", " ", "a">>,
      <<".PHONY", ":">>,
      <<"\t", "x">> }

\* The text of a file with the given lines, each ended by a newline.
RECURSIVE JoinLines(_)
JoinLines(ls) ==
    IF ls = <<>> THEN <<>> ELSE Head(ls) \o <<"\n">> \o JoinLines(Tail(ls))

Makefiles == {JoinLines(ls) : ls \in SeqUpTo(MakefileLines, MaxLines)}
DefaultMakefile ==
    JoinLines(<< <<".PHONY", ":", " ", "a">>, <<"a", ":", "#", "#", "x">>,
                 <<"b", "-", "c", " ", ":", " ", "#", "#", " ", "y">> >>)

\* Target lists create_server may get from its parser: targets "a" (twice,
\* with two descriptions), "ab", "b-c" and "b_c".
Targets ==
    { MakeTarget(<<"a">>, <<"x">>, TRUE),
      MakeTarget(<<"a">>, <<"z">>, FALSE),
      MakeTarget(<<"a", "b">>, <<"y">>, FALSE),
      MakeTarget(<<"b", "-", "c">>, <<"y">>, TRUE),
      MakeTarget(<<"b", "_", "c">>, <<"z">>, FALSE) }
TargetLists == SeqUpTo(Targets, MaxTargets)
DefaultTargets ==
    << MakeTarget(<<"a">>, <<"x">>, TRUE),
       MakeTarget(<<"b", "-", "c">>, <<"y">>, FALSE) >>

\* include / exclude arguments: absent, the empty list, and lists of the
\* patterns "a", "a*", "?", "b-c" and "[ab]*".
PatternArgs ==
    { None, Some({}), Some({<<"a">>}), Some({<<"a", "*">>}),
      Some({<<"?">>, <<"b", "-", "c">>}),
      Some({<<"[", "a", "b", "]", "*">>}) }

\* server.py:124, server_v2.py:106: the default prefix "make_".
DefaultPrefix == <<"m", "a", "k", "e", "_">>

\* Tool calls: the tools "make_a", "make_b_c", "make" and a name that no
\* tool has; the texts "", " ", "a", "b-c  a" and " a b-c " as args.
ToolNames ==
    { DefaultPrefix \o <<"a">>, DefaultPrefix \o <<"b", "_", "c">>,
      <<"m", "a", "k", "e">>, <<"z">> }
ArgTexts ==
    { <<>>, <<" ">>, <<"a">>, <<"b", "-", "c", " ", " ", "a">>,
      <<" ", "a", " ", "b", "-", "c", " ">> }
ToolCalls ==
    { ToolCall(name, target, args, dry_run, TRUE) :
        name \in ToolNames, target \in {None, Some(<<"a">>)},
        args \in ArgTexts, dry_run \in BOOLEAN }
      \cup { ToolCall(name, None, <<>>, FALSE, FALSE) : name \in ToolNames }
DefaultCall == ToolCall(DefaultPrefix \o <<"a">>, None, <<>>, FALSE, TRUE)

\* Arguments of a call of normalize_tool_name.
NameChars == {"a", "-", ":", "_", "."}
PrefixChars == {"m", "-", ":", "_"}
NoCall == [target_name |-> <<>>, prefix |-> <<>>, ret |-> None]
Calls ==
    [target_name : SeqUpTo(NameChars, MaxNameLen),
     prefix : SeqUpTo(PrefixChars, MaxPrefixLen),
     ret : {None}]

\* A process that imports the package, with neither -C nor MAKEFILE_MCP_CWD.
Imported == [entry |-> "import", flag |-> None, env |-> None]

\* No exception.
NoError == [type |-> "none", message |-> <<>>]

\* server.py:139, server_v2.py:124: the path of the build file.
MakefilePath == <<"Makefile">>

\* The state of a server process before construction: one of the packages
\* pkgs, a build file that is on disk or not (exists) with one of the texts,
\* and a call of the normalizer that has not returned.
StartWith(pkgs, texts, calls, exists, clis) ==
    /\ package \in pkgs
    /\ phase = "new"
    /\ process_cwd = StartDir
    /\ working_dir = None
    /\ timeout = 300
    /\ current_working_dir = None
    /\ written = {}
    /\ api = [op |-> "none", arg |-> None, ret |-> <<>>]
    /\ exec = [i \in Inv |-> Fresh]
    /\ makefile_exists \in exists
    /\ makefile \in texts
    /\ include = None
    /\ exclude = None
    /\ prefix = DefaultPrefix
    /\ auto_discover = TRUE
    /\ all_targets = <<>>
    /\ filtered = <<>>
    /\ discovered_targets = <<>>
    /\ tools = <<>>
    /\ startup_exc = NoError
    /\ cli \in clis
    /\ tool_name_call \in calls

\* The same with a build file that is on disk.
Start(pkgs, texts, calls) ==
    StartWith(pkgs, texts, calls, {TRUE}, {Imported})

\* A server process whose build file is missing.
StartMissing(pkgs) ==
    StartWith(pkgs, {<<>>}, {NoCall}, {FALSE}, {Imported})

Init == Start({"makefile_mcp", "mcp_server_make"}, {DefaultMakefile}, {NoCall})

Upd(i, r) == exec' = [exec EXCEPT ![i] = r]

----------------------------------------------------------------------------
(* server.py: the override slot *)

\* server.py:40-42: the confirmation set_working_directory returns.
set_working_directory_message(path) ==
    IF path = None THEN <<"Working directory cleared">>
    ELSE <<"Working directory set to: ", path[1]>>

\* Faulty variant: "if path: _current_working_dir = path" (None does not clear).
set_working_directory_keeps_on_none(path) ==
    /\ package = "makefile_mcp"
    /\ current_working_dir' = IF Truthy(path) THEN path ELSE current_working_dir
    /\ written' = written \cup {path}
    /\ api' = [op |-> "set", arg |-> path,
               ret |-> set_working_directory_message(path)]
    /\ UNCHANGED <<package, phase, process_cwd, working_dir, timeout, exec,
                   assembly>>

\* server.py:19-42  set_working_directory(path): replaces the slot.
set_working_directory(path) ==
    /\ package = "makefile_mcp"
    /\ current_working_dir' = path
    /\ written' = written \cup {path}
    /\ api' = [op |-> "set", arg |-> path,
               ret |-> set_working_directory_message(path)]
    /\ UNCHANGED <<package, phase, process_cwd, working_dir, timeout, exec,
                   assembly>>

\* server.py:45-51  get_working_directory(): returns the slot.
get_working_directory ==
    /\ package = "makefile_mcp"
    /\ api' = [op |-> "get", arg |-> api.arg, ret |-> current_working_dir]
    /\ UNCHANGED <<package, phase, process_cwd, working_dir, timeout,
                   current_working_dir, written, exec, assembly>>

----------------------------------------------------------------------------
(* Construction *)

\* Faulty variant: the build file is not looked for ("if not
\* makefile_path.exists()" is missing) and a missing file parses to nothing.
create_server_without_exists(targets, wd, inc, exc, pfx, t) ==
    /\ package = "makefile_mcp"
    /\ phase = "new"
    /\ phase' = "serving"
    /\ working_dir' = wd
    /\ timeout' = t
    /\ include' = inc
    /\ exclude' = exc
    /\ prefix' = pfx
    /\ all_targets' = IF makefile_exists THEN targets ELSE <<>>
    /\ filtered' = filter_targets(all_targets', inc, exc)
    /\ \E replace \in BOOLEAN :
          tools' = register_tools(<<>>, filtered', pfx, replace)
    /\ UNCHANGED <<package, process_cwd, current_working_dir, written, api,
                   exec, makefile_exists, makefile, auto_discover,
                   discovered_targets, startup_exc, cli, tool_name_call>>

\* server.py:119-222  create_server(working_dir=wd, include=inc,
\* exclude=exc, prefix=pfx, timeout=t): a missing build file raises
\* FileNotFoundError; else the parser (of package makefile_mcp) returns the
\* list targets, which is filtered, and one tool per filtered target is
\* registered; wd and t are kept in the closure of every tool; the
\* process's directory is not touched.
create_server(targets, wd, inc, exc, pfx, t) ==
    /\ package = "makefile_mcp"
    /\ phase = "new"
    /\ IF ~makefile_exists
       THEN /\ phase' = "failed"
            /\ startup_exc' =
                   [type |-> "FileNotFoundError",
                    message |-> <<"Makefile not found: ">> \o MakefilePath]
            /\ UNCHANGED <<working_dir, timeout, include, exclude, prefix,
                           all_targets, filtered, tools>>
       ELSE /\ phase' = "serving"
            /\ working_dir' = wd
            /\ timeout' = t
            /\ include' = inc
            /\ exclude' = exc
            /\ prefix' = pfx
            /\ all_targets' = targets
            /\ filtered' = filter_targets(targets, inc, exc)
            /\ \E replace \in BOOLEAN :
                  tools' = register_tools(<<>>, filtered', pfx, replace)
            /\ UNCHANGED startup_exc
    /\ UNCHANGED <<package, process_cwd, current_working_dir, written, api,
                   exec, makefile_exists, makefile, auto_discover,
                   discovered_targets, cli, tool_name_call>>

\* __init__.py:17-127  main(), started with neither --include, --exclude,
\* --prefix nor --list: "working_dir = args.working_dir or
\* os.environ.get("MAKEFILE_MCP_CWD")" goes to create_server; a
\* FileNotFoundError ends the process, else the server runs.
main(targets, t) ==
    /\ cli.entry = "main"
    /\ create_server(targets,
                     IF Truthy(cli.flag) THEN cli.flag ELSE cli.env,
                     None, None, DefaultPrefix, t)

\* A program that imports the package calls create_server without
\* working_dir (tests/test_working_dir_config.py:36-65).
create_server_imported(targets, t) ==
    /\ cli.entry = "import"
    /\ create_server(targets, None, None, None, DefaultPrefix, t)

\* server_v2.py:100-142  serve(working_dir=wd, auto_discover=auto,
\* include=inc, exclude=exc, prefix=pfx): "if working_dir:
\* os.chdir(working_dir)"; chdir to a missing directory raises and serve
\* ends; then a missing build file raises McpError; else the build file is
\* parsed (if auto_discover) and the targets that pass the filters are put
\* in discovered_targets under their tool names.
serve(wd, auto, inc, exc, pfx) ==
    /\ package = "mcp_server_make"
    /\ phase = "new"
    /\ working_dir' = wd
    /\ timeout' = V2TimeoutSeconds
    /\ include' = inc
    /\ exclude' = exc
    /\ prefix' = pfx
    /\ auto_discover' = auto
    /\ LET chdir_ok == IF Truthy(wd) THEN wd[1] \in ExistingDirs ELSE TRUE
       IN  /\ process_cwd' = IF Truthy(wd) /\ chdir_ok THEN wd[1]
                             ELSE process_cwd
           /\ startup_exc' =
                  IF ~chdir_ok
                  THEN [type |-> "FileNotFoundError", message |-> ErrText]
                  ELSE IF ~makefile_exists
                  THEN [type |-> "McpError",
                        message |-> <<"Makefile not found at ">>
                                        \o MakefilePath]
                  ELSE NoError
    /\ phase' = IF startup_exc' = NoError THEN "serving" ELSE "failed"
    /\ IF phase' = "serving" /\ auto
       THEN /\ all_targets' = parse_makefile(makefile)
            /\ discovered_targets' =
                   discover_targets(<<>>, all_targets', inc, exc, pfx)
       ELSE UNCHANGED <<all_targets, discovered_targets>>
    /\ UNCHANGED <<package, current_working_dir, written, api, exec,
                   makefile_exists, makefile, filtered, tools, cli,
                   tool_name_call>>

\* parser.py:59-71: the pending call of normalize_tool_name returns.
normalize_tool_name_returns ==
    /\ tool_name_call.ret = None
    /\ tool_name_call' =
           [tool_name_call EXCEPT
              !.ret = Some(normalize_tool_name(tool_name_call.target_name,
                                               tool_name_call.prefix))]
    /\ UNCHANGED <<package, phase, process_cwd, working_dir, timeout,
                   current_working_dir, written, api, exec, makefile_exists,
                   makefile, include, exclude, prefix, auto_discover,
                   all_targets, filtered, discovered_targets, tools,
                   startup_exc, cli>>

----------------------------------------------------------------------------
(* server.py: run_make *)

\* server.py:86  resolved_working_dir = _current_working_dir or working_dir
ResolveWorkingDir(slot, wd) == IF Truthy(slot) THEN slot ELSE wd

\* create_subprocess_exec(cwd=d) can start a child only in a directory that
\* exists (None: the process's own directory).
CanLaunch(d) == IF d = None THEN TRUE ELSE d[1] \in ExistingDirs

\* Faulty variant: the message states the default bound, not the configured one.
run_make_timeout_message_default(t) ==
    <<"Command timed out after ">> \o Digits(300) \o <<" seconds">>

\* server.py:106
run_make_timeout_message(t) ==
    <<"Command timed out after ">> \o Digits(t) \o <<" seconds">>

\* server.py:108
run_make_failed_message == <<"Failed to execute: ">> \o ErrText

\* server.py:110-116: the result once communicate() has returned.
run_make_result(rc, out, err) ==
    LET output == IF out # <<>> THEN Decode(out) ELSE <<>>
        errors == IF err # <<>> THEN Decode(err) ELSE <<>>
    IN  IF rc # 0
        THEN <<"Exit code ">> \o Digits(rc) \o <<":\n">> \o errors
                 \o <<"\n">> \o output
        ELSE IF output # <<>> THEN output
        ELSE IF errors # <<>> THEN errors
        ELSE <<"(no output)">>

Serving(pkg) == package = pkg /\ phase = "serving"

\* The words of a command line: "make", "-f" and "-n".
MakeWord == <<"m", "a", "k", "e">>
FileFlag == <<"-", "f">>
DryRunFlag == <<"-", "n">>

\* Faulty variant: the words of args are put before the target.
run_make_cmd_args_first(mk, target, args, dry_run) ==
    <<MakeWord, FileFlag, mk>>
        \o (IF dry_run THEN <<DryRunFlag>> ELSE <<>>)
        \o (IF args # <<>> THEN args_split(args) ELSE <<>>)
        \o <<target>>

\* server.py:87-92: cmd for the build file mk.
run_make_cmd(mk, target, args, dry_run) ==
    <<MakeWord, FileFlag, mk>>
        \o (IF dry_run THEN <<DryRunFlag>> ELSE <<>>)
        \o <<target>>
        \o (IF args # <<>> THEN args_split(args) ELSE <<>>)

\* server.py:191-220: the registered tool of that name, <<>> if there is
\* none.
RegisteredTool(name) ==
    IF \E k \in DOMAIN tools : tools[k].key = name
    THEN <<(CHOOSE k \in DOMAIN tools : tools[k].key = name)>>
    ELSE <<>>

\* Faulty variant: run_make keeps the directory it resolved in the slot
\* ("global _current_working_dir" and an assignment at line 86).
run_make_resolve_stores(i, call) ==
    /\ Serving("makefile_mcp")
    /\ exec[i].pc = "idle"
    /\ call.well_typed
    /\ RegisteredTool(call.name) # <<>>
    /\ LET t == tools[RegisteredTool(call.name)[1]].value.t
       IN  Upd(i, [exec[i] EXCEPT
                     !.pc = "resolved",
                     !.call = call,
                     !.target = t.name,
                     !.args = call.args,
                     !.dry_run = call.dry_run,
                     !.cmd = run_make_cmd(MakefilePath, t.name, call.args,
                                          call.dry_run),
                     !.slot_read = current_working_dir,
                     !.cwd = ResolveWorkingDir(current_working_dir,
                                               working_dir)])
    /\ current_working_dir' = Some(StartDir)
    /\ UNCHANGED <<package, phase, process_cwd, working_dir, timeout,
                   written, api, assembly>>

\* server.py:196-214, 84-92: a client calls a registered tool with
\* arguments of the declared types; its closure calls run_make with the
\* name of its target; the slot is read once and the command is built.
run_make_resolve(i, call) ==
    /\ Serving("makefile_mcp")
    /\ exec[i].pc = "idle"
    /\ call.well_typed
    /\ RegisteredTool(call.name) # <<>>
    /\ LET t == tools[RegisteredTool(call.name)[1]].value.t
       IN  Upd(i, [exec[i] EXCEPT
                     !.pc = "resolved",
                     !.call = call,
                     !.target = t.name,
                     !.args = call.args,
                     !.dry_run = call.dry_run,
                     !.cmd = run_make_cmd(MakefilePath, t.name, call.args,
                                          call.dry_run),
                     !.slot_read = current_working_dir,
                     !.cwd = ResolveWorkingDir(current_working_dir,
                                               working_dir)])
    /\ UNCHANGED shared

\* Faulty variant: the directory is resolved again when the child is launched.
run_make_launch_reresolves(i) ==
    /\ Serving("makefile_mcp")
    /\ exec[i].pc = "resolved"
    /\ CanLaunch(ResolveWorkingDir(current_working_dir, working_dir))
    /\ Upd(i, [exec[i] EXCEPT
                 !.pc = "waiting", !.child = "running", !.attempts = @ + 1,
                 !.cwd = ResolveWorkingDir(current_working_dir, working_dir)])
    /\ UNCHANGED shared

\* Faulty variant: "_current_working_dir if _current_working_dir else working_dir":
\* the slot is loaded a second time after the test.
run_make_launch_second_read(i) ==
    /\ Serving("makefile_mcp")
    /\ exec[i].pc = "resolved"
    /\ CanLaunch(IF Truthy(exec[i].slot_read) THEN current_working_dir
                 ELSE exec[i].cwd)
    /\ Upd(i, [exec[i] EXCEPT
                 !.pc = "waiting", !.child = "running", !.attempts = @ + 1,
                 !.cwd = IF Truthy(exec[i].slot_read) THEN current_working_dir
                         ELSE @])
    /\ UNCHANGED shared

\* server.py:95-100: create_subprocess_exec starts the child.
run_make_launch(i) ==
    /\ Serving("makefile_mcp")
    /\ exec[i].pc = "resolved"
    /\ CanLaunch(exec[i].cwd)
    /\ Upd(i, [exec[i] EXCEPT !.pc = "waiting", !.child = "running",
                              !.attempts = @ + 1])
    /\ UNCHANGED shared

\* Faulty variant: the handler catches too little and the launch error escapes.
run_make_launch_failed_raises(i) ==
    /\ Serving("makefile_mcp")
    /\ exec[i].pc = "resolved"
    /\ Upd(i, [exec[i] EXCEPT !.pc = "raised", !.fate = "launch_error",
                              !.attempts = @ + 1,
                              !.exc = "FileNotFoundError"])
    /\ UNCHANGED shared

\* server.py:95-100, 107-108: create_subprocess_exec raises (make or the
\* directory is missing); "except Exception" returns the message.
run_make_launch_failed(i) ==
    /\ Serving("makefile_mcp")
    /\ exec[i].pc = "resolved"
    /\ Upd(i, [exec[i] EXCEPT !.pc = "returned", !.fate = "launch_error",
                              !.attempts = @ + 1,
                              !.result = run_make_failed_message])
    /\ UNCHANGED shared

\* server.py:101, 110-116: communicate() returns once the child has exited
\* and both pipes are at end of file; the streams are decoded outside the
\* try, so undecodable bytes raise UnicodeDecodeError to the caller.
run_make_communicated(i) ==
    /\ Serving("makefile_mcp")
    /\ exec[i].pc = "waiting"
    /\ exec[i].child = "exited"
    /\ exec[i].desc # "piped"
    /\ IF Utf8Valid(exec[i].out) /\ Utf8Valid(exec[i].err)
       THEN Upd(i, [exec[i] EXCEPT
                      !.pc = "returned", !.fate = "exit",
                      !.result = run_make_result(exec[i].rc, exec[i].out,
                                                 exec[i].err)])
       ELSE Upd(i, [exec[i] EXCEPT !.pc = "raised", !.fate = "exit",
                                   !.exc = "UnicodeDecodeError"])
    /\ UNCHANGED shared

\* Faulty variant: the signal goes to the server's process group, which
\* holds the children of every execution.
run_make_timeout_kills_group(i) ==
    /\ Serving("makefile_mcp")
    /\ exec[i].pc = "waiting"
    /\ exec' = [j \in Inv |->
                 IF j = i
                 THEN [exec[j] EXCEPT
                         !.pc = "killing", !.fate = "timeout",
                         !.sig = IF exec[j].child = "running" THEN "KILL" ELSE @]
                 ELSE [exec[j] EXCEPT
                         !.sig = IF exec[j].child = "running" THEN "KILL" ELSE @]]
    /\ UNCHANGED shared

\* server.py:102-104: wait_for raises TimeoutError; proc.kill() signals the
\* child alone (a child that has exited is not signalled).
run_make_timeout(i) ==
    /\ Serving("makefile_mcp")
    /\ exec[i].pc = "waiting"
    /\ Upd(i, [exec[i] EXCEPT
                 !.pc = "killing", !.fate = "timeout",
                 !.sig = IF exec[i].child = "running" THEN "KILL" ELSE @])
    /\ UNCHANGED shared

\* Faulty variant: after a timeout the command is started once more.
run_make_killed_retries(i) ==
    /\ Serving("makefile_mcp")
    /\ exec[i].pc = "killing"
    /\ exec[i].child = "exited"
    /\ Upd(i, [exec[i] EXCEPT !.pc = "waiting", !.child = "running",
                              !.sig = "none", !.attempts = @ + 1])
    /\ UNCHANGED shared

\* server.py:105-106: proc.wait() returns at once if the child had exited
\* when the timeout fired (it was sent no signal); else asyncio wakes it
\* when the child has exited and both pipes are closed, which a forked
\* process that holds them prevents.
run_make_killed(i) ==
    /\ Serving("makefile_mcp")
    /\ exec[i].pc = "killing"
    /\ exec[i].child = "exited"
    /\ IF exec[i].sig = "none" THEN TRUE ELSE exec[i].desc # "piped"
    /\ Upd(i, [exec[i] EXCEPT !.pc = "returned",
                              !.result = run_make_timeout_message(timeout)])
    /\ UNCHANGED shared

\* server.py:101, 107-108: communicate() raises (a pipe read fails).
run_make_wait_error(i) ==
    /\ Serving("makefile_mcp")
    /\ exec[i].pc = "waiting"
    /\ Upd(i, [exec[i] EXCEPT !.pc = "returned", !.fate = "wait_error",
                              !.result = run_make_failed_message])
    /\ UNCHANGED shared

\* server.py:101-108: the awaiting task is cancelled.  CancelledError is a
\* BaseException: neither "except asyncio.TimeoutError" nor "except
\* Exception" catches it, so it leaves run_make at once.
run_make_cancelled(i) ==
    /\ Serving("makefile_mcp")
    /\ exec[i].pc \in {"waiting", "killing"}
    /\ Upd(i, [exec[i] EXCEPT
                 !.pc = "raised", !.exc = "CancelledError",
                 !.fate = IF exec[i].pc = "waiting" THEN "cancel" ELSE @])
    /\ UNCHANGED shared

----------------------------------------------------------------------------
(* server_v2.py: run_make_target *)

\* server_v2.py:77
run_make_target_timeout_message ==
    <<"Make command timed out after ">> \o Digits(V2TimeoutMinutes)
        \o <<" minutes">>

\* server_v2.py:67
run_make_target_start_failed_message ==
    <<"Failed to start make process: ">> \o ErrText

\* server_v2.py:89
run_make_target_error_message ==
    <<"Error during make execution: ">> \o ErrText

\* server_v2.py:91-97
run_make_target_result(rc, out, err) ==
    LET stderr_text == IF err # <<>> THEN Decode(err) ELSE <<>>
        stdout_text == IF out # <<>> THEN Decode(out) ELSE <<>>
    IN  IF rc # 0
        THEN <<"Make failed with exit code ">> \o Digits(rc) \o <<":\n">>
                 \o stderr_text \o <<"\n">> \o stdout_text
        ELSE IF stdout_text # <<>> THEN stdout_text
        ELSE IF stderr_text # <<>> THEN stderr_text
        ELSE <<"(no output)">>

\* server_v2.py:52-57: cmd for the build file make_path.
run_make_target_cmd(make_path, target, extra_args, dry_run) ==
    <<MakeWord, FileFlag, make_path>>
        \o (IF dry_run THEN <<DryRunFlag>> ELSE <<>>)
        \o <<target>>
        \o (IF extra_args # <<>> THEN args_split(extra_args) ELSE <<>>)

\* server_v2.py:149: the name of the tool that runs any target.
GenericTool == MakeWord

\* str(e) of the error pydantic raises for arguments that do not fit.
ValidationText == <<"1 validation error">>

\* server_v2.py:167-197  call_tool(name, arguments): what the call comes
\* to.  "make" takes Make(target) and runs that target without extra
\* arguments; the name of a discovered target takes MakeWithArgs(args,
\* dry_run) and runs its target; arguments that do not validate and any
\* other name give a text.  Keys a model does not declare are ignored.
call_tool(call) ==
    LET run(t, a, d) == [run |-> TRUE, target |-> t, extra_args |-> a,
                         dry_run |-> d, text |-> <<>>]
        text(t) == [run |-> FALSE, target |-> <<>>, extra_args |-> <<>>,
                    dry_run |-> FALSE, text |-> t]
        invalid == text(<<"Invalid arguments: ">> \o ValidationText)
    IN  IF call.name = GenericTool
        THEN IF call.well_typed /\ call.target # None
             THEN run(call.target[1], <<>>, FALSE)
             ELSE invalid
        ELSE IF \E k \in DOMAIN discovered_targets :
                    discovered_targets[k].key = call.name
        THEN IF call.well_typed
             THEN run((CHOOSE e \in {discovered_targets[k] :
                                        k \in DOMAIN discovered_targets} :
                          e.key = call.name).value.name,
                      call.args, call.dry_run)
             ELSE invalid
        ELSE text(<<"Unknown tool: ">> \o call.name)

\* Faulty variant: the failed validation is not caught and ends the server
\* (server.run(..., raise_exceptions=True)).
call_tool_rejected_raises(call) ==
    /\ Serving("mcp_server_make")
    /\ ~call_tool(call).run
    /\ phase' = "failed"
    /\ api' = [op |-> "call_tool", arg |-> api.arg, ret |-> <<>>]
    /\ UNCHANGED <<package, process_cwd, working_dir, timeout,
                   current_working_dir, written, exec, assembly>>

\* server_v2.py:172-177, 186-191, 197: the call is answered with a text;
\* run_make_target is not called.
call_tool_rejected(call) ==
    /\ Serving("mcp_server_make")
    /\ ~call_tool(call).run
    /\ api' = [op |-> "call_tool", arg |-> api.arg,
               ret |-> call_tool(call).text]
    /\ UNCHANGED <<package, phase, process_cwd, working_dir, timeout,
                   current_working_dir, written, exec, assembly>>

\* The locals of run_make_target as call_tool calls it.
run_make_target_called(e, call) ==
    LET c == call_tool(call)
    IN  [e EXCEPT !.call = call,
                  !.target = c.target,
                  !.args = c.extra_args,
                  !.dry_run = c.dry_run,
                  !.cmd = run_make_target_cmd(MakefilePath, c.target,
                                              c.extra_args, c.dry_run)]

\* server_v2.py:178-181, 192-195, 52-65: call_tool calls run_make_target;
\* the child starts in the process's own directory (no cwd=), as the
\* leader of a new session.
run_make_target_launch(i, call) ==
    /\ Serving("mcp_server_make")
    /\ exec[i].pc = "idle"
    /\ call_tool(call).run
    /\ Upd(i, [run_make_target_called(exec[i], call) EXCEPT
                 !.pc = "waiting", !.child = "running", !.attempts = @ + 1])
    /\ UNCHANGED shared

\* server_v2.py:59-67
run_make_target_launch_failed(i, call) ==
    /\ Serving("mcp_server_make")
    /\ exec[i].pc = "idle"
    /\ call_tool(call).run
    /\ Upd(i, [run_make_target_called(exec[i], call) EXCEPT
                 !.pc = "returned", !.fate = "launch_error",
                 !.attempts = @ + 1,
                 !.result = run_make_target_start_failed_message])
    /\ UNCHANGED shared

\* server_v2.py:69-73, 91-97
run_make_target_communicated(i) ==
    /\ Serving("mcp_server_make")
    /\ exec[i].pc = "waiting"
    /\ exec[i].child = "exited"
    /\ exec[i].desc # "piped"
    /\ IF Utf8Valid(exec[i].out) /\ Utf8Valid(exec[i].err)
       THEN Upd(i, [exec[i] EXCEPT
                      !.pc = "returned", !.fate = "exit",
                      !.result = run_make_target_result(
                                     exec[i].rc, exec[i].out, exec[i].err)])
       ELSE Upd(i, [exec[i] EXCEPT !.pc = "raised", !.fate = "exit",
                                   !.exc = "UnicodeDecodeError"])
    /\ UNCHANGED shared

\* server_v2.py:74-77: proc.terminate() if the child has not exited; the
\* message is returned without waiting for the child.
run_make_target_timeout(i) ==
    /\ Serving("mcp_server_make")
    /\ exec[i].pc = "waiting"
    /\ Upd(i, [exec[i] EXCEPT
                 !.pc = "returned", !.fate = "timeout",
                 !.sig = IF exec[i].child = "running" THEN "TERM" ELSE @,
                 !.result = run_make_target_timeout_message])
    /\ UNCHANGED shared

\* server_v2.py:88-89
run_make_target_wait_error(i) ==
    /\ Serving("mcp_server_make")
    /\ exec[i].pc = "waiting"
    /\ Upd(i, [exec[i] EXCEPT !.pc = "returned", !.fate = "wait_error",
                              !.result = run_make_target_error_message])
    /\ UNCHANGED shared

\* server_v2.py:78-82, 87: on cancellation a running child is sent SIGTERM
\* and the handler sleeps 0.1 s; a child that has exited: re-raise at once.
run_make_target_cancelled(i) ==
    /\ Serving("mcp_server_make")
    /\ exec[i].pc = "waiting"
    /\ IF exec[i].child = "running"
       THEN Upd(i, [exec[i] EXCEPT !.pc = "cancel_sleep", !.fate = "cancel",
                                   !.sig = "TERM"])
       ELSE Upd(i, [exec[i] EXCEPT !.pc = "raised", !.fate = "cancel",
                                   !.exc = "CancelledError"])
    /\ UNCHANGED shared

\* server_v2.py:83-87: after the sleep, SIGKILL if the child still runs,
\* then the CancelledError is re-raised (the child is not waited for).
run_make_target_cancel_slept(i) ==
    /\ Serving("mcp_server_make")
    /\ exec[i].pc = "cancel_sleep"
    /\ Upd(i, [exec[i] EXCEPT
                 !.pc = "raised", !.exc = "CancelledError",
                 !.sig = IF exec[i].child = "running" THEN "KILL" ELSE @])
    /\ UNCHANGED shared

\* server_v2.py:82, 85: a second cancellation during the sleep is not an
\* Exception, so it leaves the handler before proc.kill().
run_make_target_cancelled_in_sleep(i) ==
    /\ Serving("mcp_server_make")
    /\ exec[i].pc = "cancel_sleep"
    /\ Upd(i, [exec[i] EXCEPT !.pc = "raised", !.exc = "CancelledError"])
    /\ UNCHANGED shared

----------------------------------------------------------------------------
(* The environment: the child (make) and what it forks *)

\* The child forks a process (a recipe's shell or command) that inherits
\* the pipes ("piped") or has redirected its output ("detached").
ChildFork(i, kind) ==
    /\ exec[i].child = "running"
    /\ exec[i].desc = "none"
    /\ Upd(i, [exec[i] EXCEPT !.desc = kind])
    /\ UNCHANGED shared

\* The forked process ends by itself.
DescExit(i) ==
    /\ exec[i].desc # "none"
    /\ Upd(i, [exec[i] EXCEPT !.desc = "none"])
    /\ UNCHANGED shared

\* The child writes b to its standard output while it is read.
ChildWriteOut(i, b) ==
    /\ exec[i].child = "running"
    /\ exec[i].pc = "waiting"
    /\ exec[i].out = <<>>
    /\ b # <<>>
    /\ Upd(i, [exec[i] EXCEPT !.out = b])
    /\ UNCHANGED shared

\* The child writes b to its standard error while it is read.
ChildWriteErr(i, b) ==
    /\ exec[i].child = "running"
    /\ exec[i].pc = "waiting"
    /\ exec[i].err = <<>>
    /\ b # <<>>
    /\ Upd(i, [exec[i] EXCEPT !.err = b])
    /\ UNCHANGED shared

\* The child exits by itself with exit code rc.
ChildExit(i, rc) ==
    /\ exec[i].child = "running"
    /\ exec[i].sig = "none"
    /\ Upd(i, [exec[i] EXCEPT !.child = "exited", !.rc = rc])
    /\ UNCHANGED shared

\* The child dies of the signal it was sent (SIGKILL always ends it; the
\* step is simply never taken by a child that ignores SIGTERM).
ChildSignalled(i) ==
    /\ exec[i].child = "running"
    /\ exec[i].sig # "none"
    /\ Upd(i, [exec[i] EXCEPT
                 !.child = "exited",
                 !.rc = IF exec[i].sig = "KILL" THEN 0 - 9 ELSE 0 - 15])
    /\ UNCHANGED shared

----------------------------------------------------------------------------
(* Specification *)

\* The steps of the server and of a child that only runs and exits, for
\* inputs drawn from the given sets: paths (setter arguments), wds and ts
\* (construction), rcs (exit codes).  The build file and the parsed targets
\* are the default ones, without filters; calls are the tool calls.
ServerStep(paths, wds, ts, rcs, calls) ==
    \/ \E path \in paths : set_working_directory(path)
    \/ get_working_directory
    \/ \E wd \in wds, t \in ts :
          create_server(DefaultTargets, wd, None, None, DefaultPrefix, t)
    \/ \E wd \in wds : serve(wd, TRUE, None, None, DefaultPrefix)
    \/ \E i \in Inv :
        \/ \E call \in calls : run_make_resolve(i, call)
        \/ run_make_launch(i)
        \/ run_make_launch_failed(i)
        \/ run_make_communicated(i)
        \/ run_make_timeout(i)
        \/ run_make_killed(i)
        \/ run_make_wait_error(i)
        \/ run_make_cancelled(i)
        \/ \E call \in calls : run_make_target_launch(i, call)
        \/ \E call \in calls : run_make_target_launch_failed(i, call)
        \/ run_make_target_communicated(i)
        \/ run_make_target_timeout(i)
        \/ run_make_target_wait_error(i)
        \/ run_make_target_cancelled(i)
        \/ run_make_target_cancel_slept(i)
        \/ run_make_target_cancelled_in_sleep(i)
        \/ \E rc \in rcs : ChildExit(i, rc)
        \/ ChildSignalled(i)

\* What else a child does: it forks and it writes to its pipes.
ChildStep(outs, errs, kinds) ==
    \E i \in Inv :
        \/ \E kind \in kinds : ChildFork(i, kind)
        \/ DescExit(i)
        \/ \E b \in outs : ChildWriteOut(i, b)
        \/ \E b \in errs : ChildWriteErr(i, b)

\* The executor in full: every outcome of a child; the override is set to
\* a directory that does not exist.
Next ==
    \/ ServerStep({Some("/b")}, {None}, Timeouts, ExitCodes, {DefaultCall})
    \/ ChildStep(StdoutBytes, StderrBytes, {"piped"})

\* The working directory in full: every directory as override and as
\* construction-time value, with a child that only runs and exits.
NextWd == ServerStep(OptDirs, OptDirs, {300}, {0}, {DefaultCall})

SpecWd == Init /\ [][NextWd]_vars

\* Construction in full: create_server with every target list of its
\* parser, serve with every build file, with every include and exclude.
InitAssembly ==
    \/ Start({"makefile_mcp"}, {DefaultMakefile}, {NoCall})
    \/ Start({"mcp_server_make"}, Makefiles, {NoCall})
    \/ StartMissing({"makefile_mcp", "mcp_server_make"})

NextAssembly ==
    \/ \E targets \in TargetLists, inc \in PatternArgs, exc \in PatternArgs :
          create_server(targets, None, inc, exc, DefaultPrefix, 300)
    \/ \E auto \in BOOLEAN, inc \in PatternArgs, exc \in PatternArgs :
          serve(None, auto, inc, exc, DefaultPrefix)

SpecAssembly == InitAssembly /\ [][NextAssembly]_vars

\* The filter of create_server alone: every target list of its parser with
\* every include and exclude.
InitFilter == Start({"makefile_mcp"}, {DefaultMakefile}, {NoCall})

NextFilter ==
    \E targets \in TargetLists, inc \in PatternArgs, exc \in PatternArgs :
        create_server(targets, None, inc, exc, DefaultPrefix, 300)

SpecFilter == InitFilter /\ [][NextFilter]_vars

\* Tool calls in full: construction with the default targets, with and
\* without the target "a" excluded; then every tool call, up to the launch
\* of the child.
NextCalls ==
    \/ \E exc \in {None, Some({<<"a">>})} :
          create_server(DefaultTargets, None, None, exc, DefaultPrefix, 300)
    \/ \E exc \in {None, Some({<<"a">>})} :
          serve(None, TRUE, None, exc, DefaultPrefix)
    \/ \E call \in ToolCalls :
        \/ call_tool_rejected(call)
        \/ \E i \in Inv :
            \/ run_make_resolve(i, call)
            \/ run_make_target_launch(i, call)
            \/ run_make_target_launch_failed(i, call)
    \/ \E i \in Inv : run_make_launch(i)

SpecCalls == Init /\ [][NextCalls]_vars

\* The command line in full: every value of -C and of MAKEFILE_MCP_CWD,
\* for a process started by main and for one that imports the package;
\* then the override is set and targets are run up to the launch.
InitCli ==
    StartWith({"makefile_mcp"}, {DefaultMakefile}, {NoCall}, {TRUE},
              [entry : {"main", "import"}, flag : OptDirs, env : OptDirs])

NextCli ==
    \/ main(DefaultTargets, 300)
    \/ create_server_imported(DefaultTargets, 300)
    \/ \E path \in {None, Some("")} : set_working_directory(path)
    \/ \E i \in Inv :
        \/ run_make_resolve(i, DefaultCall)
        \/ run_make_launch(i)
        \/ run_make_launch_failed(i)

SpecCli == InitCli /\ [][NextCli]_vars

\* Termination: executions of the default call with a child that may fork
\* a process holding the pipes and may never exit by itself.  The timer of
\* wait_for fires, a launch and the sleep of the cancellation handler end,
\* proc.wait() returns once it can, and a child sent SIGKILL dies; nothing
\* makes a child or a forked process exit by itself, and nothing makes a
\* client cancel.
NextLive ==
    \/ create_server(DefaultTargets, None, None, None, DefaultPrefix, 300)
    \/ serve(None, TRUE, None, None, DefaultPrefix)
    \/ \E i \in Inv :
        \/ run_make_resolve(i, DefaultCall)
        \/ run_make_launch(i)
        \/ run_make_launch_failed(i)
        \/ run_make_communicated(i)
        \/ run_make_timeout(i)
        \/ run_make_killed(i)
        \/ run_make_cancelled(i)
        \/ run_make_target_launch(i, DefaultCall)
        \/ run_make_target_launch_failed(i, DefaultCall)
        \/ run_make_target_communicated(i)
        \/ run_make_target_timeout(i)
        \/ run_make_target_cancelled(i)
        \/ run_make_target_cancel_slept(i)
        \/ ChildFork(i, "piped")
        \/ DescExit(i)
        \/ ChildExit(i, 0)
        \/ ChildSignalled(i)

Fairness ==
    \A i \in Inv :
        /\ WF_vars(run_make_launch(i) \/ run_make_launch_failed(i))
        /\ WF_vars(run_make_timeout(i))
        /\ WF_vars(run_make_killed(i))
        /\ WF_vars(run_make_target_timeout(i))
        /\ WF_vars(run_make_target_cancel_slept(i))
        /\ WF_vars(exec[i].sig = "KILL" /\ ChildSignalled(i))

SpecLive == Init /\ [][NextLive]_vars /\ Fairness

\* The normalizer: every call with a name and a prefix of a few characters.
InitNormalize == Start({"mcp_server_make"}, {DefaultMakefile}, Calls)

NextNormalize == normalize_tool_name_returns

SpecNormalize == InitNormalize /\ [][NextNormalize]_vars

Spec == Init /\ [][Next]_vars

----------------------------------------------------------------------------
(* Claims *)

Launched(i) == exec[i].child # "none"
Alive(i) == exec[i].child = "running" \/ exec[i].desc # "none"

\* C1 (as claimed): an execution that timed out and has returned its result
\* has left no process it launched alive, neither the child nor a process
\* the child forked.
C1_TimedOutReturnLeavesNoProcess ==
    \A i \in Inv :
        (exec[i].pc = "returned" /\ exec[i].fate = "timeout") => ~Alive(i)

\* C2 (as claimed): when the cancellation of a waiting execution has
\* propagated to the caller, the child and what it forked are terminated.
C2_CancelledLeavesNoProcess ==
    \A i \in Inv :
        (exec[i].pc = "raised" /\ exec[i].exc = "CancelledError"
            /\ exec[i].fate = "cancel") => ~Alive(i)

\* The rule of spec section 4.3: the override if it is not absent, else the
\* construction-time value (absent: inherit).
PrecedenceRule(slot, wd) == IF slot # None THEN slot ELSE wd

\* C3 (as claimed): the directory run_make hands to the child is the
\* override slot's value whenever the slot is not absent, whatever string
\* it holds, else the construction-time directory, else absent.
C3_ChildDirFollowsPrecedence ==
    \A i \in Inv :
        (package = "makefile_mcp" /\ exec[i].pc # "idle")
            => exec[i].cwd = PrecedenceRule(exec[i].slot_read, working_dir)

\* C4: an execution's directory is fixed by the slot value it reads when it
\* starts: the read sees the value of the last completed setter call, and
\* no later step (a setter call while the execution is in flight) changes
\* the value read or the directory of the execution.
C4_DirFixedAtRead ==
    [][\A i \in Inv :
          /\ (package = "makefile_mcp" /\ exec[i].pc = "idle"
                  /\ exec'[i].pc # "idle")
                => /\ exec'[i].slot_read = current_working_dir
                   /\ exec'[i].cwd = ResolveWorkingDir(current_working_dir,
                                                       working_dir)
          /\ exec[i].pc # "idle"
                => /\ exec'[i].slot_read = exec[i].slot_read
                   /\ exec'[i].cwd = exec[i].cwd]_vars

\* C4 witness: a child is running in a directory that the slot, changed by
\* a setter call during the flight, no longer resolves to.
C4_Witness ==
    \E i \in Inv :
        /\ package = "makefile_mcp"
        /\ exec[i].child = "running"
        /\ exec[i].cwd = Some("/a")
        /\ exec[i].slot_read = Some("/a")
        /\ current_working_dir = None
        /\ working_dir = None

\* C5 (as claimed): no operation changes the server process's own current
\* directory.
C5_ProcessCwdNeverChanges == process_cwd = StartDir

\* C6: the slot is absent until the first setter call and afterwards holds
\* exactly the argument of the last setter call; the getter returns that
\* value and leaves it in place; the setter's confirmation is the
\* "cleared" message iff its argument is absent, else a "set to" message
\* containing the argument.
C6_SlotHoldsLastSet ==
    /\ (written = {} => current_working_dir = None)
    /\ current_working_dir = api.arg
    /\ (api.op = "get" => api.ret = api.arg)
    /\ (api.op = "set" =>
           IF api.arg = None
           THEN api.ret = <<"Working directory cleared">>
           ELSE /\ api.ret[1] = "Working directory set to: "
                /\ Contains(api.ret, api.arg))

\* C6 witness: after a clear and then a set to "/a", the getter returned
\* "/a".
C6_Witness ==
    /\ api.op = "get"
    /\ api.ret = Some("/a")
    /\ None \in written

\* C7: with setter calls interleaved with executions, the value an
\* execution has read from the slot is the initial absent value or the
\* whole argument of a completed setter call, and the directory of the
\* execution is computed from that one value.
C7_ReadsWholeWrittenValue ==
    \A i \in Inv :
        (package = "makefile_mcp" /\ exec[i].pc # "idle")
            => /\ exec[i].slot_read \in {None} \cup written
               /\ exec[i].cwd = ResolveWorkingDir(exec[i].slot_read,
                                                  working_dir)

\* C7 witness: two executions in flight have read different values of the
\* slot, both written by setter calls.
C7_Witness ==
    /\ package = "makefile_mcp"
    /\ exec[1].child = "running"
    /\ exec[1].slot_read = Some("/a")
    /\ exec[2].pc = "resolved"
    /\ exec[2].slot_read = Some("/b")

\* The forms of a result text.
TimeoutForm(r) ==
    /\ r # <<>>
    /\ r[1] \in {"Command timed out after ", "Make command timed out after "}
LaunchFailureForm(r) ==
    /\ r # <<>>
    /\ r[1] \in {"Failed to execute: ", "Failed to start make process: "}
FailureForm(r) ==
    /\ r # <<>>
    /\ r[1] \in {"Failed to execute: ", "Failed to start make process: ",
                 "Error during make execution: "}
    /\ Contains(r, ErrText)
CompletedForm(i) ==
    /\ Utf8Valid(exec[i].out) /\ Utf8Valid(exec[i].err)
    /\ exec[i].result =
          IF package = "makefile_mcp"
          THEN run_make_result(exec[i].rc, exec[i].out, exec[i].err)
          ELSE run_make_target_result(exec[i].rc, exec[i].out, exec[i].err)

\* C8 (as claimed): every execution that has ended (other than by
\* cancellation) has returned a result, and in exactly one of three ways:
\* the child exited and the result is the exit-code-based text; the timeout
\* elapsed and the result is the timeout message; the launch failed, no
\* child was started and the result is the launch-failure message.
C8_OutcomesExclusive ==
    \A i \in Inv :
        (exec[i].pc \in {"returned", "raised"} /\ exec[i].exc # "CancelledError")
            => /\ exec[i].pc = "returned"
               /\ \/ exec[i].fate = "exit" /\ CompletedForm(i)
                  \/ exec[i].fate = "timeout" /\ TimeoutForm(exec[i].result)
                  \/ /\ exec[i].fate = "launch_error"
                     /\ LaunchFailureForm(exec[i].result)
               /\ LaunchFailureForm(exec[i].result) => ~Launched(i)

\* The bound as a timeout message states it: run_make in seconds,
\* run_make_target (fixed at 300 s) in minutes.
BoundText ==
    IF package = "makefile_mcp"
    THEN Digits(timeout) \o <<" seconds">>
    ELSE Digits(timeout \div 60) \o <<" minutes">>

\* C9: the result of a timed-out execution is a timeout message that
\* contains the bound the execution was configured with, and contains
\* nothing the child had written before the timeout.
C9_TimeoutResultStatesBound ==
    \A i \in Inv :
        (exec[i].pc = "returned" /\ exec[i].fate = "timeout")
            => /\ TimeoutForm(exec[i].result)
               /\ Contains(exec[i].result, BoundText)
               /\ exec[i].out # <<>>
                     => ~Contains(exec[i].result, Decode(exec[i].out))
               /\ exec[i].err # <<>>
                     => ~Contains(exec[i].result, Decode(exec[i].err))

\* C9 witness: run_make configured with a 1 second timeout has timed out
\* and returned after the child had written to both pipes.
C9_Witness ==
    \E i \in Inv :
        /\ package = "makefile_mcp"
        /\ timeout = 1
        /\ exec[i].pc = "returned"
        /\ exec[i].fate = "timeout"
        /\ exec[i].out = <<111>>
        /\ exec[i].err = <<101>>

\* C10: a failed launch and a failure during the wait are returned as a
\* text describing the failure and never raised; after a failed launch no
\* child exists; and a launch in a directory that does not exist fails.
C10_FailuresAreReturned ==
    \A i \in Inv :
        /\ exec[i].fate = "launch_error"
              => /\ exec[i].pc = "returned"
                 /\ exec[i].exc = "none"
                 /\ FailureForm(exec[i].result)
                 /\ ~Launched(i)
                 /\ ~Alive(i)
        /\ exec[i].fate = "wait_error"
              => /\ exec[i].pc = "returned"
                 /\ exec[i].exc = "none"
                 /\ FailureForm(exec[i].result)
        /\ (exec[i].pc \notin {"idle", "resolved"} /\ ~CanLaunch(exec[i].cwd))
              => exec[i].fate = "launch_error"

\* C10 witness: the override names a directory that does not exist and the
\* execution has returned the launch failure.
C10_Witness ==
    \E i \in Inv :
        /\ exec[i].pc = "returned"
        /\ exec[i].fate = "launch_error"
        /\ exec[i].cwd = Some("/b")

\* The result of spec section 4.4 step 5 for decoded streams: standard
\* output if it is not empty, else standard error if it is not empty, else
\* the placeholder.
SuccessText(out, err) ==
    IF out # <<>> THEN out ELSE IF err # <<>> THEN err ELSE <<"(no output)">>

\* communicate() of execution i has completed: the child has exited and both
\* streams were read to their end.
Completed(i) == exec[i].fate = "exit"

\* C11 (as claimed): an execution whose child has exited with code zero
\* returns a result, which is the captured standard output if that is not
\* empty, else the captured standard error if that is not empty, else
\* "(no output)"; the result is never empty.
C11_ZeroExitResult ==
    \A i \in Inv :
        (Completed(i) /\ exec[i].rc = 0)
            => /\ exec[i].pc = "returned"
               /\ exec[i].result = SuccessText(Decode(exec[i].out),
                                               Decode(exec[i].err))
               /\ exec[i].result # <<>>

\* The heading of a non-zero-exit result up to the exit code.
ExitCodeHeading ==
    IF package = "makefile_mcp" THEN "Exit code "
    ELSE "Make failed with exit code "

\* C12 (as claimed): an execution whose child has exited with a non-zero
\* code c returns a result that states c, then the standard-error section,
\* then the standard-output section, both present also when the stream is
\* empty; it is never the result a zero exit would give.
C12_NonZeroExitResult ==
    \A i \in Inv :
        (Completed(i) /\ exec[i].rc # 0)
            => /\ exec[i].pc = "returned"
               /\ exec[i].result =
                     <<ExitCodeHeading>> \o Digits(exec[i].rc) \o <<":\n">>
                        \o Decode(exec[i].err) \o <<"\n">>
                        \o Decode(exec[i].out)
               /\ exec[i].result # SuccessText(Decode(exec[i].out),
                                               Decode(exec[i].err))

\* Execution i has reported: it has returned a result or raised.
Reported(i) == exec[i].pc \in {"returned", "raised"}

\* C13: no retries.  An invocation calls create_subprocess_exec at most
\* once; once a child was started or the launch has failed no further child
\* is started (an exited child never runs again); and once the invocation
\* has reported, its outcome is never replaced.
C13_NoRetries ==
    [][\A i \in Inv :
          /\ exec'[i].attempts <= 1
          /\ exec[i].attempts = 1 => exec'[i].attempts = 1
          /\ exec[i].child = "exited" => exec'[i].child = "exited"
          /\ Reported(i)
                => /\ exec'[i].pc = exec[i].pc
                   /\ exec'[i].fate = exec[i].fate
                   /\ exec'[i].result = exec[i].result
                   /\ exec'[i].exc = exec[i].exc]_vars

\* C13 witness: one invocation has reported a timeout and another a
\* non-zero exit, each after a single launch.
C13_Witness ==
    /\ exec[1].pc = "returned" /\ exec[1].fate = "timeout"
    /\ exec[1].attempts = 1
    /\ exec[2].pc = "returned" /\ exec[2].fate = "exit" /\ exec[2].rc = 1
    /\ exec[2].attempts = 1

\* C14: invocations in flight are independent.  A step of one invocation
\* (its timeout, its cancellation, the end of its child) changes nothing of
\* another invocation: not its child, the signal sent to it, its streams or
\* its outcome; only a setter call changes the slot; and the result of a
\* completed invocation is the text of its own child's exit code and
\* streams.
C14_InvocationsIndependent ==
    [][/\ \A i, j \in Inv :
             (i # j /\ exec'[i] # exec[i]) => exec'[j] = exec[j]
       /\ exec' # exec => current_working_dir' = current_working_dir
       /\ \A i \in Inv :
             (exec'[i].pc = "returned" /\ exec'[i].fate = "exit")
                => exec'[i].result =
                      IF package = "makefile_mcp"
                      THEN run_make_result(exec'[i].rc, exec'[i].out,
                                           exec'[i].err)
                      ELSE run_make_target_result(exec'[i].rc, exec'[i].out,
                                                  exec'[i].err)]_vars

\* C14 witness: one invocation has timed out and its child was killed while
\* the child of the other invocation runs on, unsignalled, with output of
\* its own.
C14_Witness ==
    /\ exec[1].fate = "timeout" /\ exec[1].child = "exited"
    /\ exec[1].rc = 0 - 9
    /\ exec[2].child = "running" /\ exec[2].sig = "none"
    /\ exec[2].pc = "waiting" /\ exec[2].out = <<111>>

\* The targets construction has kept: "filtered" of create_server, the
\* values of discovered_targets of serve.
Kept ==
    IF package = "makefile_mcp" THEN filtered
    ELSE [k \in DOMAIN discovered_targets |-> discovered_targets[k].value]

\* Construction has parsed and filtered.
Assembled == phase = "serving" /\ auto_discover

\* The rule of spec section 4.5 for a name: include is absent or some
\* include pattern matches, and exclude is absent or no exclude pattern
\* matches; a list that is present and empty has no pattern that matches.
SurvivesRule(name, inc, exc) ==
    /\ IF inc = None THEN TRUE ELSE \E p \in inc[1] : fnmatch(name, p)
    /\ IF exc = None THEN TRUE ELSE \A p \in exc[1] : ~fnmatch(name, p)

\* C15 (as claimed): after construction a parsed target's name is among the
\* kept targets iff include is absent or the name matches an include
\* pattern, and exclude is absent or the name matches no exclude pattern,
\* where a list that is present but empty counts as present.
C15_FilterRule ==
    Assembled =>
        \A k \in DOMAIN all_targets :
            (\E j \in DOMAIN Kept : Kept[j].name = all_targets[k].name)
                <=> SurvivesRule(all_targets[k].name, include, exclude)

\* sub is a subsequence of full: its elements are elements of full, whole
\* and in the order of full.
IsSubsequence(sub, full) ==
    \E f \in [DOMAIN sub -> DOMAIN full] :
        /\ \A k \in DOMAIN sub : full[f[k]] = sub[k]
        /\ \A j, k \in DOMAIN sub : j < k => f[j] < f[k]

\* C16: the list create_server has filtered is a subsequence of the parsed
\* list: every kept target is a parsed target with its name, description
\* and phony flag, and the kept targets are in the parsed order.
C16_FilteredIsSubsequence ==
    (package = "makefile_mcp" /\ Assembled)
        => IsSubsequence(filtered, all_targets)

\* C16 witness: of three parsed targets the middle one was dropped and the
\* two that were kept differ.
C16_Witness ==
    /\ package = "makefile_mcp" /\ Assembled
    /\ Len(all_targets) = 3
    /\ Len(filtered) = 2
    /\ filtered[1] = all_targets[1]
    /\ filtered[2] = all_targets[3]
    /\ filtered[1] # filtered[2]
    /\ all_targets[2] \notin {filtered[1], filtered[2]}

\* C17: filtering the filtered list of create_server once more, with the
\* same include and exclude, gives the same list.
C17_FilterIdempotent ==
    (package = "makefile_mcp" /\ Assembled)
        => filter_targets(filtered, include, exclude) = filtered

\* C17 witness: include and exclude were both given, some targets were
\* dropped and some kept.
C17_Witness ==
    /\ package = "makefile_mcp" /\ Assembled
    /\ Given(include) /\ Given(exclude)
    /\ filtered # <<>>
    /\ Len(filtered) < Len(all_targets)

\* The call of normalize_tool_name has returned.
Normalized == tool_name_call.ret # None

\* C18 (as claimed): the result of normalize_tool_name(name, p) begins with
\* p and has no "-" and no ":" in it, for every name and every prefix.
C18_NormalizedHasNoHyphenOrColon ==
    Normalized =>
        LET r == tool_name_call.ret[1]
            p == tool_name_call.prefix
        IN  /\ Len(r) >= Len(p)
            /\ SubSeq(r, 1, Len(p)) = p
            /\ \A k \in DOMAIN r : r[k] \notin {"-", ":"}

\* C19: the result of normalize_tool_name(name, prefix) has
\* len(prefix) + len(name) characters: first the characters of the prefix
\* as they are, then for each character of name "_" if it is "-" or ":" and
\* else the character itself; with an empty prefix, those alone.
C19_NormalizeIsPrefixPlusSubstitution ==
    Normalized =>
        LET r == tool_name_call.ret[1]
            p == tool_name_call.prefix
            n == tool_name_call.target_name
        IN  /\ Len(r) = Len(p) + Len(n)
            /\ \A k \in DOMAIN p : r[k] = p[k]
            /\ \A k \in DOMAIN n :
                  r[Len(p) + k] = IF n[k] \in {"-", ":"} THEN "_" ELSE n[k]
            /\ p = <<>> => Len(r) = Len(n)

\* C19 witness: normalize_tool_name("a-.", "m-") has returned "m-a_.".
C19_Witness ==
    /\ tool_name_call.target_name = <<"a", "-", ".">>
    /\ tool_name_call.prefix = <<"m", "-">>
    /\ tool_name_call.ret = Some(<<"m", "-", "a", "_", ".">>)

\* The lines of a text: the runs between its newlines.
RECURSIVE LinesOf(_)
LinesOf(text) ==
    LET e == Find(text, 1, "\n")
    IN  IF text = <<>> THEN <<>>
        ELSE IF e > Len(text) THEN <<text>>
        ELSE <<Slice(text, 1, e)>> \o LinesOf(SubSeq(text, e + 1, Len(text)))

\* What spec section 4.1 asks for: one entry per line that by itself
\* matches the documented-target pattern, with the name of that line and
\* the trimmed text after "##" of that line, in the order of the lines.
RECURSIVE DocumentedTargets(_)
DocumentedTargets(ls) ==
    IF ls = <<>> THEN <<>>
    ELSE LET m == TargetMatch(Head(ls), 1)
         IN  (IF m = <<>> THEN <<>>
              ELSE << <<Slice(Head(ls), 1, m[1]),
                        Strip(Slice(Head(ls), m[2], m[3]))>> >>)
                 \o DocumentedTargets(Tail(ls))

\* C20 (as claimed): the targets serve has parsed are, in order and with
\* repetitions, the names and trimmed descriptions of the lines of the
\* build file that match the documented-target pattern.
C20_OneTargetPerDocumentedLine ==
    (package = "mcp_server_make" /\ Assembled)
        => [k \in DOMAIN all_targets |->
               <<all_targets[k].name, all_targets[k].description>>]
              = DocumentedTargets(LinesOf(makefile))

\* The name a line begins with (<<>> if it begins with none), and whether
\* the line has "##" on it.
LeadingName(line) ==
    IF line = <<>> THEN <<>>
    ELSE IF ~IsNameStart(line[1]) THEN <<>>
    ELSE Slice(line, 1, SkipName(line, 2))
HasMarker(line) ==
    \E k \in 1..(Len(line) - 1) : line[k] = "#" /\ line[k + 1] = "#"

\* C21 (as claimed): every Target serve has parsed has the name of a line
\* of the build file that has "##" on it; a line without "##" gives no
\* Target, whatever follows it.
C21_UndocumentedLineGivesNoTarget ==
    (package = "mcp_server_make" /\ Assembled)
        => \A k \in DOMAIN all_targets :
              \E j \in DOMAIN LinesOf(makefile) :
                  /\ HasMarker(LinesOf(makefile)[j])
                  /\ LeadingName(LinesOf(makefile)[j]) = all_targets[k].name

\* C22 (as claimed): every Target serve has parsed has a name and a
\* description that are not empty.
C22_NameAndDescriptionNonEmpty ==
    (package = "mcp_server_make" /\ Assembled)
        => \A k \in DOMAIN all_targets :
              /\ all_targets[k].name # <<>>
              /\ all_targets[k].description # <<>>

\* The names declared phony: the words after the colon of the lines that
\* begin with ".PHONY", white space and a colon.
RECURSIVE DeclaredPhony(_)
DeclaredPhony(ls) ==
    IF ls = <<>> THEN {}
    ELSE LET line == Head(ls)
             colon == SkipSpace(line, 2)
         IN  (IF line = <<>> THEN {}
              ELSE IF line[1] # ".PHONY" THEN {}
              ELSE IF colon > Len(line) THEN {}
              ELSE IF line[colon] # ":" THEN {}
              ELSE Split(SubSeq(line, colon + 1, Len(line))))
                 \cup DeclaredPhony(Tail(ls))

\* C23 (as claimed): a parsed Target is phony iff its name is listed on a
\* ".PHONY:" line of the build file, the names of all such lines taken
\* together; a name that is only declared phony gives no Target.
C23_PhonyIffDeclared ==
    (package = "mcp_server_make" /\ Assembled)
        => \A k \in DOMAIN all_targets :
              /\ all_targets[k].is_phony
                    <=> all_targets[k].name \in DeclaredPhony(LinesOf(makefile))
              /\ \E j \in DOMAIN LinesOf(makefile) :
                    LeadingName(LinesOf(makefile)[j]) = all_targets[k].name

\* The tools a client is offered for targets, as name, description and the
\* target a call runs: server.py's registered tools, server_v2.py's
\* discovered_targets (list_tools, call_tool).
TargetTools ==
    IF package = "makefile_mcp"
    THEN [k \in DOMAIN tools |->
             [name |-> tools[k].key,
              description |-> tools[k].value.description,
              target |-> tools[k].value.t.name]]
    ELSE [k \in DOMAIN discovered_targets |->
             [name |-> discovered_targets[k].key,
              description |-> discovered_targets[k].value.description,
              target |-> discovered_targets[k].value.name]]

\* The exception says that the build file was not found.
NotFound(e) ==
    /\ e.type \in {"FileNotFoundError", "McpError"}
    /\ e.message # <<>>
    /\ Head(e.message) \in {"Makefile not found: ", "Makefile not found at "}

\* C25: construction with a build file that does not exist ends with a
\* "not found" error, with no tool registered and without serving;
\* construction with a build file that exists (and a working directory that
\* can be entered) serves, and with zero targets it has zero target tools.
C25_MissingBuildFileFailsConstruction ==
    phase # "new"
        => IF ~makefile_exists
           THEN /\ phase = "failed"
                /\ NotFound(startup_exc)
                /\ TargetTools = <<>>
                /\ filtered = <<>>
           ELSE /\ ~NotFound(startup_exc)
                /\ startup_exc = NoError
                       => /\ phase = "serving"
                          /\ all_targets = <<>> => TargetTools = <<>>

\* C25 witness: construction was tried with a missing build file.
C25_Witness == ~makefile_exists /\ phase = "failed"

\* The targets construction has let through its filter: server.py's
\* filtered; for server_v2.py the parsed targets its loop does not skip.
RECURSIVE NotSkipped(_)
NotSkipped(targets) ==
    IF targets = <<>> THEN <<>>
    ELSE LET t == Head(targets)
         IN  IF Given(include) /\ t.name \notin include[1]
             THEN NotSkipped(Tail(targets))
             ELSE IF Given(exclude) /\ t.name \in exclude[1]
             THEN NotSkipped(Tail(targets))
             ELSE <<t>> \o NotSkipped(Tail(targets))
FilteredTargets ==
    IF package = "makefile_mcp" THEN filtered ELSE NotSkipped(all_targets)

\* C24 (as claimed): once construction is done, every filtered target has a
\* tool with its normalized name and its description that runs that target,
\* and there are as many target tools as filtered targets, also when two
\* filtered targets have the same normalized name.
C24_OneToolPerFilteredTarget ==
    (phase = "serving" /\ (package = "mcp_server_make" => auto_discover))
        => /\ Len(TargetTools) = Len(FilteredTargets)
           /\ \A k \in DOMAIN FilteredTargets :
                 \E j \in DOMAIN TargetTools :
                     TargetTools[j] =
                         [name |-> normalize_tool_name(
                                       FilteredTargets[k].name, prefix),
                          description |-> FilteredTargets[k].description,
                          target |-> FilteredTargets[k].name]

\* The text is one of the error texts of call_tool.
RejectionText(t) ==
    /\ t # <<>>
    /\ Head(t) \in {"Invalid arguments: ", "Unknown tool: "}

\* The call names a tool the server offers and its arguments fit it.
WellFormed(call) ==
    /\ call.well_typed
    /\ IF package = "mcp_server_make" /\ call.name = GenericTool
       THEN call.target # None
       ELSE \E k \in DOMAIN TargetTools : TargetTools[k].name = call.name

\* C26: a step that answers a tool call without running it answers with an
\* error text, starts no child and leaves every execution, the tools, the
\* override slot, the process's directory and the serving state as they
\* were; and no execution was started by a call that is malformed or names
\* no tool.
C26_RejectedCallChangesNothing ==
    [][ /\ (api' # api /\ api'.op = "call_tool")
            => /\ RejectionText(api'.ret)
               /\ exec' = exec
               /\ tools' = tools
               /\ discovered_targets' = discovered_targets
               /\ current_working_dir' = current_working_dir
               /\ process_cwd' = process_cwd
               /\ phase' = phase
        /\ \A i \in Inv :
              (exec[i].pc = "idle" /\ exec'[i].pc # "idle")
                  => WellFormed(exec'[i].call) ]_vars

\* C26 witness: an unknown tool was called and a later call was served.
C26_Witness ==
    /\ api.op = "call_tool"
    /\ Head(api.ret) = "Unknown tool: "
    /\ \E i \in Inv : exec[i].pc = "waiting"

\* C27 (as claimed): the first of "the child exits" and "the timeout
\* elapses" decides: an execution returns the timeout message only if its
\* child was still running when the timeout elapsed (it was then sent a
\* signal), and then it returns nothing else; an execution that got the
\* child's exit returns no timeout message.
C27_FirstEventDecides ==
    \A i \in Inv :
        exec[i].pc = "returned"
            => /\ exec[i].fate = "timeout"
                     => TimeoutForm(exec[i].result) /\ exec[i].sig # "none"
               /\ exec[i].fate = "exit" => ~TimeoutForm(exec[i].result)

\* The words of a text, read character by character: white space ends the
\* word that is being read.
RECURSIVE Tokens(_, _)
Tokens(t, word) ==
    LET done == IF word = <<>> THEN <<>> ELSE <<word>>
    IN  IF t = <<>> THEN done
        ELSE IF IsSpace(Head(t)) THEN done \o Tokens(Tail(t), <<>>)
        ELSE Tokens(Tail(t), Append(word, Head(t)))

\* C28: the command of every execution is "make", "-f", the build file,
\* then "-n" iff dry_run, then the target, then the words of the extra
\* arguments in their order (none for an empty or blank text).
C28_CommandTokens ==
    \A i \in Inv :
        exec[i].pc # "idle"
            => exec[i].cmd =
                   << <<"m", "a", "k", "e">>, <<"-", "f">>, MakefilePath >>
                       \o (IF exec[i].dry_run THEN << <<"-", "n">> >>
                           ELSE <<>>)
                       \o <<exec[i].target>>
                       \o Tokens(exec[i].args, <<>>)

\* C28 witness: a dry run of a target with two extra words, given with
\* blanks around them, has been launched.
C28_Witness ==
    \E i \in Inv :
        /\ exec[i].pc = "waiting"
        /\ exec[i].dry_run
        /\ exec[i].args = <<" ", "a", " ", "b", "-", "c", " ">>
        /\ Len(exec[i].cmd) = 7

\* The names of the targets of a list.
NamesOf(targets) == {targets[k].name : k \in DOMAIN targets}

\* C30 (as claimed): no execution passes to make, as the target or as a
\* word of the extra arguments, the name of a parsed target that the filter
\* has removed.
C30_FilteredOutNeverExecuted ==
    \A i \in Inv :
        exec[i].pc # "idle"
            => \A k \in 4..Len(exec[i].cmd) :
                  exec[i].cmd[k] \in NamesOf(all_targets)
                      => exec[i].cmd[k] \in NamesOf(FilteredTargets)

\* The construction-time directory the command line stands for: the value
\* of -C if it is given, else that of MAKEFILE_MCP_CWD if it is set, else
\* absent; a program that imports the package gives none.
CliWorkingDir ==
    IF cli.entry = "import" THEN None
    ELSE IF cli.flag # None THEN cli.flag
    ELSE cli.env

\* C29 (as claimed): the server is constructed with the directory of -C if
\* given, else of MAKEFILE_MCP_CWD if set, else none (create_server itself
\* does not look at the environment), and every execution runs in the
\* override if one is set, else in that directory.
C29_CliPrecedence ==
    phase = "serving"
        => /\ working_dir = CliWorkingDir
           /\ \A i \in Inv :
                 exec[i].pc # "idle"
                     => exec[i].cwd =
                            PrecedenceRule(exec[i].slot_read, CliWorkingDir)

\* An execution has been called and has neither returned nor raised.
InFlight(i) == exec[i].pc \notin {"idle", "returned", "raised"}

\* C31 (as claimed): every execution that has been called eventually
\* returns a result or raises, provided the timer fires and a child that
\* was sent SIGKILL exits, also when the child never exits by itself or a
\* forked process keeps the pipes open.
C31_EveryExecutionEnds ==
    \A i \in Inv : InFlight(i) ~> ~InFlight(i)

\* C32: a step that changes the override slot is a call of
\* set_working_directory with the slot's new value; a step of an execution
\* or a call of get_working_directory leaves the slot as it was; and once
\* the server is constructed no step changes the registered tools, the
\* filtered targets or the parsed targets.
C32_OnlySetterWritesSharedState ==
    [][ /\ current_working_dir' # current_working_dir
            => /\ api'.op = "set"
               /\ api'.arg = current_working_dir'
               /\ exec' = exec
        /\ (exec' # exec \/ api'.op = "get")
            => current_working_dir' = current_working_dir
        /\ phase = "serving"
            => /\ tools' = tools
               /\ discovered_targets' = discovered_targets
               /\ filtered' = filtered
               /\ all_targets' = all_targets ]_vars

\* C32 witness: with the override set, one execution has timed out and
\* returned, another has been cancelled, and the slot has been read back.
C32_Witness ==
    /\ current_working_dir = Some("/b")
    /\ api.op = "get"
    /\ \E i, j \in Inv :
          /\ exec[i].pc = "returned" /\ exec[i].fate = "timeout"
          /\ exec[j].pc = "raised" /\ exec[j].exc = "CancelledError"

====
